---- MODULE Spec2Model ----
(***************************************************************************)
(* Model of backendsolar/solarbackend.py: the Flask service that loads a   *)
(* Keras classifier and a fitted scaler at import time and serves          *)
(* GET / and POST|OPTIONS /predict.                                        *)
(*                                                                         *)
(* One behaviour is one process lifetime serving one request: the request  *)
(* is drawn in Init, the two module-level load blocks run (each may fail), *)
(* and then the matching view function produces the response.              *)
(*                                                                         *)
(* Python floats are records [cls, n]: cls = "finite" with the integer n,  *)
(* or cls = "nan".  JSON values are records [kind, num, str].  Strings     *)
(* that float() has to parse are sequences of one-character strings.       *)
(***************************************************************************)
EXTENDS Integers, Sequences, FiniteSets, TLC

VARIABLES
    pc,                \* "load_model", "load_scaler", "serving", "responded"
    model,             \* module global `model`: "None" or the loaded artifact
    scaler,            \* module global `scaler`: "None" or the loaded artifact
    request,           \* the HTTP request being served: [method, path, body]
    response,          \* the view's return value: [status, body]
    calls,             \* the calls the view made, in order
    validation_error,  \* local `validation_error` of predict()
    input_array,       \* local `input_array`: what scaler.transform received
    scaled_input,      \* local `scaled_input`: what model.predict received
    prediction_array   \* local `prediction_array`: what model.predict returned

vars == <<pc, model, scaler, request, response, calls, validation_error,
          input_array, scaled_input, prediction_array>>

-----------------------------------------------------------------------------
(* Bounds of the model. *)

\* largest weight a class gets in a modelled classifier output
MaxProb == 2
\* largest number of classes with a non-zero weight in a modelled output
MaxSupport == 2

-----------------------------------------------------------------------------
(* Python floats. *)

Float(n) == [cls |-> "finite", n |-> n]
NaN == [cls |-> "nan", n |-> 0]

\* a <= b on Python floats: every comparison with nan is False
FloatLe(a, b) == a.cls = "finite" /\ b.cls = "finite" /\ a.n <= b.n

-----------------------------------------------------------------------------
(* Sensor bounds, lines 19-22. *)

VOLT_MIN == -5
VOLT_MAX == 20
TEMP_MIN == -50
TEMP_MAX == 60
DUST_MIN == 0
DUST_MAX == 1000
LIGHT_MIN == -10
LIGHT_MAX == 20000

\* Python's None, as the value of a variable that otherwise holds a record
None == [none |-> TRUE]

\* the chained comparison  MIN <= x <= MAX  of lines 31, 34, 37, 40
InRange(lo, x, hi) == FloatLe(Float(lo), x) /\ FloatLe(x, Float(hi))

\* the f-string a failed check returns: the field, its value and its bound
RangeMessage(field, x, lo, hi) ==
    [text |-> "Input Error", field |-> field, value |-> x, lo |-> lo, hi |-> hi]

\* faulty variant: the dust check placed before the temperature check
validate_sensor_inputs_DustFirst(volt, temp, dust, light) ==
    IF ~ InRange(VOLT_MIN, volt, VOLT_MAX)
    THEN RangeMessage("Voltage", volt, VOLT_MIN, VOLT_MAX)
    ELSE IF ~ InRange(DUST_MIN, dust, DUST_MAX)
    THEN RangeMessage("Dust", dust, DUST_MIN, DUST_MAX)
    ELSE IF ~ InRange(TEMP_MIN, temp, TEMP_MAX)
    THEN RangeMessage("Temperature", temp, TEMP_MIN, TEMP_MAX)
    ELSE IF ~ InRange(LIGHT_MIN, light, LIGHT_MAX)
    THEN RangeMessage("Irradiance", light, LIGHT_MIN, LIGHT_MAX)
    ELSE None

validate_sensor_inputs(volt, temp, dust, light) ==
    IF ~ InRange(VOLT_MIN, volt, VOLT_MAX)
    THEN RangeMessage("Voltage", volt, VOLT_MIN, VOLT_MAX)
    ELSE IF ~ InRange(TEMP_MIN, temp, TEMP_MAX)
    THEN RangeMessage("Temperature", temp, TEMP_MIN, TEMP_MAX)
    ELSE IF ~ InRange(DUST_MIN, dust, DUST_MAX)
    THEN RangeMessage("Dust", dust, DUST_MIN, DUST_MAX)
    ELSE IF ~ InRange(LIGHT_MIN, light, LIGHT_MAX)
    THEN RangeMessage("Irradiance", light, LIGHT_MIN, LIGHT_MAX)
    ELSE None

-----------------------------------------------------------------------------
(* LABEL_MAP, lines 76-87 (the Latin part of each label). *)

NumClasses == 10

LABEL_MAP ==
    [i \in 0 .. NumClasses - 1 |->
        CASE i = 0 -> "Normal"
          [] i = 1 -> "Soiling"
          [] i = 2 -> "High Temp"
          [] i = 3 -> "Shading"
          [] i = 4 -> "Sensor Error"
          [] i = 5 -> "Temp + Shade"
          [] i = 6 -> "Dust + Temp"
          [] i = 7 -> "Dust + Shade"
          [] i = 8 -> "Worst Case"
          [] i = 9 -> "Low Temp"]

\* the index predict() looks up when validation fails, line 124
FAULT_CLASS == 4

-----------------------------------------------------------------------------
(* JSON values of a request body and Python's float() on them, lines       *)
(* 114-117.                                                                *)

JsonNumber(x) == [kind |-> "number", num |-> x, str |-> <<>>]
JsonString(s) == [kind |-> "string", num |-> Float(0), str |-> s]
JsonNull == [kind |-> "null", num |-> Float(0), str |-> <<>>]
JsonList == [kind |-> "list", num |-> Float(0), str |-> <<>>]
JsonObject == [kind |-> "object", num |-> Float(0), str |-> <<>>]

Digits == {"0", "1", "2", "3", "4", "5", "6", "7", "8", "9"}

DigitValue(c) ==
    CASE c = "0" -> 0 [] c = "1" -> 1 [] c = "2" -> 2 [] c = "3" -> 3
      [] c = "4" -> 4 [] c = "5" -> 5 [] c = "6" -> 6 [] c = "7" -> 7
      [] c = "8" -> 8 [] c = "9" -> 9

\* the outcome of a call that may raise: a value or the exception raised
Returned(x) == [raised |-> "", value |-> x]
Raised(exc) == [raised |-> exc, value |-> NaN]

\* leading and trailing blanks are ignored by float(str)
RECURSIVE StripLeft(_)
StripLeft(s) == IF s # <<>> /\ Head(s) = " " THEN StripLeft(Tail(s)) ELSE s

RECURSIVE StripRight(_)
StripRight(s) ==
    IF s # <<>> /\ s[Len(s)] = " " THEN StripRight(SubSeq(s, 1, Len(s) - 1)) ELSE s

\* the value of a non-empty run of decimal digits
RECURSIVE DecimalValue(_)
DecimalValue(ds) ==
    IF ds = <<>> THEN 0
    ELSE 10 * DecimalValue(SubSeq(ds, 1, Len(ds) - 1)) + DigitValue(ds[Len(ds)])

AllDigits(ds) == ds # <<>> /\ \A k \in 1 .. Len(ds) : ds[k] \in Digits

\* float(str): an optional sign, then "nan" or decimal digits; anything
\* else raises ValueError
FloatOfString(s) ==
    LET t == StripRight(StripLeft(s))
        signed == t # <<>> /\ Head(t) \in {"-", "+"}
        sign == IF signed /\ Head(t) = "-" THEN -1 ELSE 1
        body == IF signed THEN Tail(t) ELSE t
    IN  IF body = <<"n", "a", "n">> THEN Returned(NaN)
        ELSE IF AllDigits(body) THEN Returned(Float(sign * DecimalValue(body)))
        ELSE Raised("ValueError")

\* float(x) for a value decoded from JSON
PyFloat(v) ==
    CASE v.kind = "number" -> Returned(v.num)
      [] v.kind = "string" -> FloatOfString(v.str)
      [] OTHER -> Raised("TypeError")

-----------------------------------------------------------------------------
(* The artifacts and what calling them can do.  Both are external: the     *)
(* scaler's transform is an uninterpreted function of its argument, the    *)
(* classifier returns some vector of NumClasses weights, and either call   *)
(* may raise.                                                              *)

KerasModel == "solar_panel_ai_10_classes.h5"
FittedScaler == "scaler_10_classes.pkl"

Classes == 0 .. NumClasses - 1

\* scaler.transform(x) when it returns
Transform(sc, x) == [scaler |-> sc, of |-> x]

\* the vectors model.predict(...)[0] may return
ModelOutputs ==
    UNION { { [i \in Classes |-> IF i \in S THEN g[i] ELSE 0] : g \in [S -> 1 .. MaxProb] }
            : S \in { T \in SUBSET Classes : Cardinality(T) <= MaxSupport } }

\* the exception types a failing artifact call is modelled to raise
ArtifactErrors == {"ValueError", "RuntimeError"}

\* str(e) of a caught exception
ExceptionText(exc) ==
    CASE exc = "TypeError" -> "float() argument must be a string or a real number"
      [] exc = "ValueError" -> "X has a different number of features"
      [] exc = "KeyError" -> "key"
      [] OTHER -> "artifact call failed"

-----------------------------------------------------------------------------
(* predict(), lines 94-159. *)

required_keys == <<"voltage", "temperature", "dust", "irradiance">>

\* faulty variant: `and` in place of `or`
ArtifactsMissing_Both(m, s) == m = "None" /\ s = "None"

\* line 96
ArtifactsMissing(m, s) == m = "None" \/ s = "None"

\* faulty variant: any() in place of all()
HasRequiredKeys_Any(data) == \E n \in 1 .. Len(required_keys) : required_keys[n] \in DOMAIN data

\* line 107: all(k in data for k in required_keys)
HasRequiredKeys(data) == \A n \in 1 .. Len(required_keys) : required_keys[n] \in DOMAIN data

\* the float(data[k]) calls of lines 114-117, in order, up to the first that
\* raises (data[k] of a key that is not there raises KeyError)
ParseFields(data) ==
    LET conv == [n \in 1 .. Len(required_keys) |->
                    IF required_keys[n] \in DOMAIN data
                    THEN PyFloat(data[required_keys[n]])
                    ELSE Raised("KeyError")]
        bad == {n \in 1 .. Len(required_keys) : conv[n].raised # ""}
        first == IF bad = {} THEN Len(required_keys) + 1
                 ELSE CHOOSE n \in bad : \A o \in bad : n <= o
    IN  [made |-> IF bad = {} THEN Len(required_keys) ELSE first,
         raised |-> IF bad = {} THEN "" ELSE conv[first].raised,
         value |-> [n \in 1 .. Len(required_keys) |-> conv[n].value]]

\* faulty variant: the fields in the order of the request
FeatureVector_InputOrder(voltage, temperature, dust, irradiance) ==
    <<voltage, temperature, dust, irradiance>>

\* line 131: np.array([[voltage, dust, temperature, irradiance]])
FeatureVector(voltage, temperature, dust, irradiance) ==
    <<voltage, dust, temperature, irradiance>>

\* faulty variant: the last index holding the maximum
ArgMax_Last(a) ==
    CHOOSE i \in DOMAIN a :
        /\ \A j \in DOMAIN a : a[j] <= a[i]
        /\ \A j \in DOMAIN a : j > i => a[j] < a[i]

\* line 140: np.argmax returns the first index holding the maximum
ArgMax(a) ==
    CHOOSE i \in DOMAIN a :
        /\ \A j \in DOMAIN a : a[j] <= a[i]
        /\ \A j \in DOMAIN a : j < i => a[j] < a[i]

\* line 141: LABEL_MAP.get(index, "Unknown Class")
LabelOf(i) == IF i \in DOMAIN LABEL_MAP THEN LABEL_MAP[i] ELSE "Unknown Class"

\* faulty variant: only the winning class is reported
Probabilities_WinnerOnly(a) ==
    [l \in {LABEL_MAP[i] : i \in {ArgMax_Last(a)}} |-> a[ArgMax_Last(a)]]

\* lines 144-147: {LABEL_MAP[i]: float(prob) for i, prob in enumerate(...)};
\* a label met twice keeps the later entry
Probabilities(a) ==
    [l \in {LABEL_MAP[i] : i \in DOMAIN a} |->
        a[CHOOSE i \in DOMAIN a :
            LABEL_MAP[i] = l /\ \A j \in DOMAIN a : LABEL_MAP[j] = l => j <= i]]

\* the bodies of the responses
NoBody == [raw |-> ""]
UnavailableBody ==
    [error |-> [text |-> "Model or Scaler not loaded. Service unavailable."]]
MissingKeysBody ==
    [error |-> [text |-> "Missing one or more required keys", keys |-> required_keys]]
InvalidFormatBody ==
    [error |-> [text |-> "Invalid data format. All inputs must be numerical."]]
\* faulty variant: the label of class 0 in place of the fault class
OutOfRangeBody_Class0(err) == [result |-> LABEL_MAP[0], error |-> err]
OutOfRangeBody(err) == [result |-> LABEL_MAP[FAULT_CLASS], error |-> err]
InternalErrorBody(exc) ==
    [error |-> [text |-> "Internal server error during prediction",
                detail |-> ExceptionText(exc)]]
PredictionBody(a) == [result |-> LabelOf(ArgMax(a)), probabilities |-> Probabilities(a)]

\* the two except clauses, lines 155-159
OnException(exc) ==
    IF exc = "ValueError" THEN [status |-> 400, body |-> InvalidFormatBody]
    ELSE [status |-> 500, body |-> InternalErrorBody(exc)]

-----------------------------------------------------------------------------
(* The requests a behaviour may serve. *)

Absent == [kind |-> "absent", num |-> Float(0), str |-> <<>>]

\* values tried for a key whose accepted range is [lo, hi]: around both
\* bounds, nan, a numeric and a non-numeric string, null, a list, an object
SampleValues(lo, hi) ==
    { JsonNumber(Float(lo - 1)), JsonNumber(Float(lo)), JsonNumber(Float(hi)),
      JsonNumber(Float(hi + 1)), JsonNumber(NaN),
      JsonString(<<"7">>), JsonString(<<"a", "b", "c">>),
      JsonNull, JsonList, JsonObject }

\* the JSON object holding the keys that are not Absent
JsonBody(v, t, d, l) ==
    LET all == [k \in {"voltage", "temperature", "dust", "irradiance"} |->
                    CASE k = "voltage" -> v [] k = "temperature" -> t
                      [] k = "dust" -> d [] k = "irradiance" -> l]
    IN  [k \in {k \in DOMAIN all : all[k] # Absent} |-> all[k]]

Bodies ==
    { JsonBody(v, t, d, l) :
        v \in SampleValues(VOLT_MIN, VOLT_MAX) \cup {Absent},
        t \in SampleValues(TEMP_MIN, TEMP_MAX) \cup {Absent},
        d \in SampleValues(DUST_MIN, DUST_MAX) \cup {Absent},
        l \in SampleValues(LIGHT_MIN, LIGHT_MAX) \cup {Absent} }

EmptyObject == JsonBody(Absent, Absent, Absent, Absent)

Requests ==
    { [method |-> "GET", path |-> "/", body |-> EmptyObject],
      [method |-> "OPTIONS", path |-> "/predict", body |-> EmptyObject] }
    \cup { [method |-> "POST", path |-> "/predict", body |-> b] : b \in Bodies }

-----------------------------------------------------------------------------
(* The state machine. *)

NoResponse == [status |-> 0, body |-> NoBody]

Init ==
    /\ pc = "load_model"
    /\ model = "None"
    /\ scaler = "None"
    /\ request \in Requests
    /\ response = NoResponse
    /\ calls = <<>>
    /\ validation_error = None
    /\ input_array = <<>>
    /\ scaled_input = None
    /\ prediction_array = <<>>

\* lines 55-61: load_model() returns the model or raises, and then model = None
LoadModel ==
    /\ pc = "load_model"
    /\ \E loaded \in BOOLEAN : model' = IF loaded THEN KerasModel ELSE "None"
    /\ pc' = "load_scaler"
    /\ UNCHANGED <<scaler, request, response, calls, validation_error,
                   input_array, scaled_input, prediction_array>>

\* lines 66-73: pickle.load() returns the scaler or raises, and then scaler = None
LoadScaler ==
    /\ pc = "load_scaler"
    /\ \E loaded \in BOOLEAN : scaler' = IF loaded THEN FittedScaler ELSE "None"
    /\ pc' = "serving"
    /\ UNCHANGED <<model, request, response, calls, validation_error,
                   input_array, scaled_input, prediction_array>>

\* lines 90-92
Home ==
    /\ pc = "serving"
    /\ request.path = "/"
    /\ response' = [status |-> 200,
                    body |-> [message |-> "Solar Fault Analyzer API is running"]]
    /\ pc' = "responded"
    /\ UNCHANGED <<model, scaler, request, calls, validation_error,
                   input_array, scaled_input, prediction_array>>

\* what predict() leaves behind: its response, the calls it made and its locals
Return(resp, made, verr, ia, si, pa) ==
    /\ response' = resp
    /\ calls' = made
    /\ validation_error' = verr
    /\ input_array' = ia
    /\ scaled_input' = si
    /\ prediction_array' = pa

\* the calls made once all four float() conversions returned
ParsedCalls == <<"get_json", "float", "float", "float", "float", "validate_sensor_inputs">>

\* lines 94-159
Predict ==
    /\ pc = "serving"
    /\ request.path = "/predict"
    /\ pc' = "responded"
    /\ UNCHANGED <<model, scaler, request>>
    /\ IF ArtifactsMissing(model, scaler)
       THEN Return([status |-> 503, body |-> UnavailableBody], <<>>, None, <<>>, None, <<>>)
       ELSE IF request.method = "OPTIONS"
       THEN Return([status |-> 204, body |-> NoBody], <<>>, None, <<>>, None, <<>>)
       ELSE IF ~ HasRequiredKeys(request.body)
       THEN Return([status |-> 400, body |-> MissingKeysBody],
                   <<"get_json">>, None, <<>>, None, <<>>)
       ELSE LET parsed == ParseFields(request.body)
                voltage == parsed.value[1]
                temperature == parsed.value[2]
                dust == parsed.value[3]
                irradiance == parsed.value[4]
                verr == validate_sensor_inputs(voltage, temperature, dust, irradiance)
                ia == FeatureVector(voltage, temperature, dust, irradiance)
                si == Transform(scaler, ia)
            IN  IF parsed.raised # ""
                THEN Return(OnException(parsed.raised),
                            <<"get_json">> \o [n \in 1 .. parsed.made |-> "float"],
                            None, <<>>, None, <<>>)
                ELSE IF verr # None
                THEN Return([status |-> 400, body |-> OutOfRangeBody(verr)],
                            ParsedCalls, verr, <<>>, None, <<>>)
                ELSE \/ \E exc \in ArtifactErrors :
                            Return(OnException(exc),
                                   ParsedCalls \o <<"scaler.transform">>,
                                   verr, ia, None, <<>>)
                     \/ \E exc \in ArtifactErrors :
                            Return(OnException(exc),
                                   ParsedCalls \o <<"scaler.transform", "model.predict">>,
                                   verr, ia, si, <<>>)
                     \/ \E pa \in ModelOutputs :
                            Return([status |-> 200, body |-> PredictionBody(pa)],
                                   ParsedCalls \o <<"scaler.transform", "model.predict",
                                                    "np.argmax">>,
                                   verr, ia, si, pa)

Next == LoadModel \/ LoadScaler \/ Home \/ Predict

Spec == Init /\ [][Next]_vars

-----------------------------------------------------------------------------
(* Vocabulary of the properties.  A reading is judged here from the        *)
(* request alone, with plain integer comparisons.                          *)

Responded == pc = "responded"
IsPredictPost == request.method = "POST" /\ request.path = "/predict"
IsPreflight == request.method = "OPTIONS" /\ request.path = "/predict"
Loaded == model # "None" /\ scaler # "None"
Called(name) == \E n \in 1 .. Len(calls) : calls[n] = name

Keys == {"voltage", "temperature", "dust", "irradiance"}
AllKeysPresent == Keys \subseteq DOMAIN request.body
IsNumeric(v) == PyFloat(v).raised = ""
AllNumeric == AllKeysPresent /\ \A k \in Keys : IsNumeric(request.body[k])
Reading(k) == PyFloat(request.body[k]).value

LowerBound(k) ==
    CASE k = "voltage" -> VOLT_MIN [] k = "temperature" -> TEMP_MIN
      [] k = "dust" -> DUST_MIN [] k = "irradiance" -> LIGHT_MIN
UpperBound(k) ==
    CASE k = "voltage" -> VOLT_MAX [] k = "temperature" -> TEMP_MAX
      [] k = "dust" -> DUST_MAX [] k = "irradiance" -> LIGHT_MAX
FieldName(k) ==
    CASE k = "voltage" -> "Voltage" [] k = "temperature" -> "Temperature"
      [] k = "dust" -> "Dust" [] k = "irradiance" -> "Irradiance"

OutOfBounds(k) ==
    LET x == Reading(k)
    IN  x.cls = "nan" \/ x.n < LowerBound(k) \/ x.n > UpperBound(k)
SomeOutOfBounds == \E k \in Keys : OutOfBounds(k)

\* the position of a key in the order voltage, temperature, dust, irradiance
Rank(k) == CHOOSE n \in 1 .. Len(required_keys) : required_keys[n] = k
FirstOutOfBounds ==
    CHOOSE k \in Keys : OutOfBounds(k) /\ \A o \in Keys : OutOfBounds(o) => Rank(k) <= Rank(o)

\* a call to the scaler or to the classifier raised
ArtifactRaised ==
    calls # <<>> /\ calls[Len(calls)] \in {"scaler.transform", "model.predict"}

HasError == "error" \in DOMAIN response.body

-----------------------------------------------------------------------------
(* C1: when the model or the scaler failed to load, every POST /predict    *)
(* is answered 503 with an error field, whatever its body, and the handler *)
(* makes no call at all: no get_json, float, validation or prediction.     *)
C1_Unavailable503 ==
    (Responded /\ IsPredictPost /\ ~ Loaded)
        => /\ response.status = 503
           /\ HasError
           /\ calls = <<>>
           /\ validation_error = None
           /\ input_array = <<>>

\* one artifact loaded, the other not, and a reading that would be valid
C1_Witness ==
    /\ Responded /\ IsPredictPost
    /\ model # "None" /\ scaler = "None"
    /\ AllNumeric /\ ~ SomeOutOfBounds
    /\ response.status = 503

(* C2: with both artifacts loaded, a POST /predict whose four fields all   *)
(* parse as numbers and of which at least one is out of bounds is answered *)
(* 400 with result = the label of class 4 and error = the message of       *)
(* validate_sensor_inputs for the reading; neither the scaler nor the      *)
(* classifier is called.                                                   *)
C2_OutOfRange400 ==
    (Responded /\ IsPredictPost /\ Loaded /\ AllNumeric /\ SomeOutOfBounds)
        => /\ response.status = 400
           /\ DOMAIN response.body = {"result", "error"}
           /\ response.body.result = LABEL_MAP[4]
           /\ response.body.error =
                validate_sensor_inputs(Reading("voltage"), Reading("temperature"),
                                       Reading("dust"), Reading("irradiance"))
           /\ response.body.error # None
           /\ ~ Called("scaler.transform")
           /\ ~ Called("model.predict")

\* temperature alone above its bound
C2_Witness ==
    /\ Responded /\ IsPredictPost /\ Loaded /\ AllNumeric
    /\ {k \in Keys : OutOfBounds(k)} = {"temperature"}
    /\ Reading("temperature").cls = "finite"
    /\ Reading("temperature").n > TEMP_MAX
    /\ response.status = 400
    /\ response.body.result = "Sensor Error"

(* C3 (as stated): with both artifacts loaded and all four keys present, a *)
(* POST /predict in which some field is not a number or numeric string     *)
(* (a non-numeric string, null, a list, an object) is answered 400         *)
(* "Invalid data format", also when another field is out of range.         *)
C3_NonNumeric400 ==
    (Responded /\ IsPredictPost /\ Loaded /\ AllKeysPresent
        /\ \E k \in Keys : ~ IsNumeric(request.body[k]))
        => /\ response.status = 400
           /\ response.body = InvalidFormatBody

(* C4: with both artifacts loaded, a POST /predict whose body lacks one or *)
(* more of the four keys is answered 400 with an error that lists all four *)
(* required keys, before any float conversion or range check of the keys   *)
(* that are present.                                                       *)
C4_MissingKeys400 ==
    (Responded /\ IsPredictPost /\ Loaded /\ ~ AllKeysPresent)
        => /\ response.status = 400
           /\ HasError
           /\ "keys" \in DOMAIN response.body.error
           /\ {response.body.error.keys[n] : n \in DOMAIN response.body.error.keys} = Keys
           /\ ~ Called("float")
           /\ ~ Called("validate_sensor_inputs")

\* one key missing, one present key non-numeric and another out of range
C4_Witness ==
    /\ Responded /\ IsPredictPost /\ Loaded
    /\ DOMAIN request.body = Keys \ {"irradiance"}
    /\ ~ IsNumeric(request.body["voltage"])
    /\ IsNumeric(request.body["temperature"]) /\ OutOfBounds("temperature")
    /\ response.status = 400

(* C5 (as stated): an OPTIONS /predict request is answered 204 with an     *)
(* empty body in every load state of the service.                          *)
C5_Preflight204 ==
    (Responded /\ IsPreflight) => (response.status = 204 /\ response.body = NoBody)

(* C6: with both artifacts loaded, a POST /predict whose four fields are   *)
(* all within bounds, and for which the scaler and the classifier return,  *)
(* is answered 200 with result = the label of the lowest index holding the *)
(* maximum of the classifier's output; the result is one of the 10 labels  *)
(* of LABEL_MAP, never "Unknown Class".                                    *)
C6_ArgmaxLabel ==
    (Responded /\ IsPredictPost /\ Loaded /\ AllNumeric /\ ~ SomeOutOfBounds
        /\ ~ ArtifactRaised)
        => /\ response.status = 200
           /\ DOMAIN prediction_array = Classes
           /\ \E i \in Classes :
                /\ \A j \in Classes : prediction_array[j] <= prediction_array[i]
                /\ \A j \in 0 .. i - 1 : prediction_array[j] < prediction_array[i]
                /\ response.body.result = LABEL_MAP[i]
           /\ response.body.result \in {LABEL_MAP[i] : i \in Classes}
           /\ response.body.result # "Unknown Class"

\* two classes tie for the maximum and the lower index wins
C6_Witness ==
    /\ Responded /\ IsPredictPost /\ response.status = 200
    /\ \E i, j \in Classes :
        /\ i < j
        /\ prediction_array[i] = prediction_array[j]
        /\ prediction_array[i] > 0
        /\ \A c \in Classes : prediction_array[c] <= prediction_array[i]
        /\ response.body.result = LABEL_MAP[i]

(* C7: on every 200 response, probabilities has exactly one entry per      *)
(* label of LABEL_MAP, all 10 of them, and the entry of LABEL_MAP[i] is    *)
(* the weight the classifier gave to class i.                              *)
C7_FullDistribution ==
    (Responded /\ IsPredictPost /\ response.status = 200)
        => /\ DOMAIN response.body.probabilities = {LABEL_MAP[i] : i \in Classes}
           /\ Cardinality(DOMAIN response.body.probabilities) = NumClasses
           /\ \A i \in Classes :
                response.body.probabilities[LABEL_MAP[i]] = prediction_array[i]

\* a 200 response where a class other than the winner has a non-zero weight
C7_Witness ==
    /\ Responded /\ IsPredictPost /\ response.status = 200
    /\ \E i, j \in Classes :
        /\ prediction_array[i] > prediction_array[j]
        /\ prediction_array[j] > 0
        /\ response.body.probabilities[LABEL_MAP[j]] = prediction_array[j]

(* C8 (as stated): when the scaler's transform or the classifier raises,   *)
(* the response has an error field whose message is generic and carries no *)
(* text of the exception.                                                  *)
C8_GenericInternalError ==
    (Responded /\ IsPredictPost /\ ArtifactRaised)
        => /\ HasError
           /\ "detail" \notin DOMAIN response.body.error

(* C9: validate_sensor_inputs checks voltage, temperature, dust and        *)
(* irradiance in that order against inclusive bounds and returns the       *)
(* message of the first field out of bounds; it returns None if and only   *)
(* if all four are within bounds, the bounds themselves included.          *)
C9_ValidateFirstViolation ==
    (Responded /\ Called("validate_sensor_inputs"))
        => /\ (validation_error = None) <=> ~ SomeOutOfBounds
           /\ SomeOutOfBounds =>
                validation_error =
                    [text |-> "Input Error",
                     field |-> FieldName(FirstOutOfBounds),
                     value |-> Reading(FirstOutOfBounds),
                     lo |-> LowerBound(FirstOutOfBounds),
                     hi |-> UpperBound(FirstOutOfBounds)]

\* temperature and dust both out of bounds: temperature is the one reported
C9_Witness ==
    /\ Responded /\ Called("validate_sensor_inputs")
    /\ {k \in Keys : OutOfBounds(k)} = {"temperature", "dust", "irradiance"}
    /\ Reading("voltage") = Float(VOLT_MAX)
    /\ validation_error # None
    /\ validation_error.field = "Temperature"

(* C10: for every reading that reaches the scaler, the vector passed to    *)
(* scaler.transform is [voltage, dust, temperature, irradiance] of the     *)
(* request, and the classifier receives the scaler's output for exactly    *)
(* that vector.                                                            *)
C10_FeatureOrder ==
    (Responded /\ Called("scaler.transform"))
        => /\ input_array = <<Reading("voltage"), Reading("dust"),
                              Reading("temperature"), Reading("irradiance")>>
           /\ Called("model.predict") =>
                scaled_input = [scaler |-> scaler, of |-> input_array]

\* the classifier ran on a reading whose dust and temperature differ
C10_Witness ==
    /\ Responded /\ Called("model.predict") /\ response.status = 200
    /\ Reading("dust") # Reading("temperature")
    /\ input_array[2] = Reading("dust")
    /\ input_array[3] = Reading("temperature")

====
